---------------------------- MODULE Spec2Model ----------------------------
(***************************************************************************)
(* Weather_Data_Analyser_DSE: the aggregation and insight logic of the     *)
(* Dash dashboard (src/app.py) and of the command-line analyzer            *)
(* (src/weather.py), as a state machine over the stored weather table.     *)
(*                                                                         *)
(* Column values are pandas float64 values.  A value is a record           *)
(* [nan, v]: nan marks a null (NaN); otherwise v is the magnitude of the   *)
(* double as a natural number in units of 2^-56, written little-endian in  *)
(* limbs of 14 bits (<<>> is 0).  Results of divisions (means, medians)    *)
(* are in units of 2^-70, one limb finer.  Every arithmetic step rounds    *)
(* to the 53-bit mantissa of a double, to nearest, ties to even, as the    *)
(* hardware does.  The model's values are 0 or at least 2^-4.              *)
(***************************************************************************)
EXTENDS Integers, Sequences, FiniteSets, TLC

(***************************************************************************)
(* Natural numbers of arbitrary size, in limbs of 14 bits.                 *)
(***************************************************************************)
Base == 2^14

RECURSIVE Pow2(_)
Pow2(k) == IF k = 0 THEN 1 ELSE 2 * Pow2(k - 1)

RECURSIVE Norm(_)
Norm(a) ==
    IF a = <<>> THEN <<>>
    ELSE IF a[Len(a)] = 0 THEN Norm(SubSeq(a, 1, Len(a) - 1))
    ELSE a

Limb(a, i) == IF i >= 1 /\ i <= Len(a) THEN a[i] ELSE 0

RECURSIVE AddFrom(_, _, _, _)
AddFrom(a, b, i, carry) ==
    IF i > Len(a) /\ i > Len(b)
    THEN IF carry = 0 THEN <<>> ELSE <<carry>>
    ELSE LET s == Limb(a, i) + Limb(b, i) + carry
         IN  <<s % Base>> \o AddFrom(a, b, i + 1, s \div Base)

BigAdd(a, b) == AddFrom(a, b, 1, 0)

\* a - b for a >= b
RECURSIVE SubFrom(_, _, _, _)
SubFrom(a, b, i, borrow) ==
    IF i > Len(a) THEN <<>>
    ELSE LET s == Limb(a, i) - Limb(b, i) - borrow
         IN  IF s < 0
             THEN <<s + Base>> \o SubFrom(a, b, i + 1, 1)
             ELSE <<s>> \o SubFrom(a, b, i + 1, 0)

BigSub(a, b) == Norm(SubFrom(a, b, 1, 0))

\* -1, 0, 1 as a < b, a = b, a > b (a, b normalised)
RECURSIVE CmpFrom(_, _, _)
CmpFrom(a, b, i) ==
    IF i = 0 THEN 0
    ELSE IF a[i] < b[i] THEN -1
    ELSE IF a[i] > b[i] THEN 1
    ELSE CmpFrom(a, b, i - 1)

BigCmp(a, b) ==
    IF Len(a) < Len(b) THEN -1
    ELSE IF Len(a) > Len(b) THEN 1
    ELSE CmpFrom(a, b, Len(a))

BigLE(a, b) == BigCmp(a, b) <= 0
BigLT(a, b) == BigCmp(a, b) < 0

RECURSIVE MulFrom(_, _, _, _)
MulFrom(a, n, i, carry) ==
    IF i > Len(a)
    THEN IF carry = 0 THEN <<>>
         ELSE <<carry % Base>> \o MulFrom(a, n, i, carry \div Base)
    ELSE LET s == a[i] * n + carry
         IN  <<s % Base>> \o MulFrom(a, n, i + 1, s \div Base)

\* a * n for a small natural n (n < 2^16)
BigMulSmall(a, n) == Norm(MulFrom(a, n, 1, 0))

\* long division by a small natural n (0 < n < 2^16), from the top limb:
\* [q |-> quotient limbs (little-endian, not normalised), r |-> remainder]
RECURSIVE DivFrom(_, _, _, _)
DivFrom(a, n, i, rem) ==
    IF i = 0 THEN [q |-> <<>>, r |-> rem]
    ELSE LET cur  == rem * Base + a[i]
             rest == DivFrom(a, n, i - 1, cur % n)
         IN  [q |-> rest.q \o <<cur \div n>>, r |-> rest.r]

BigDivSmall(a, n) ==
    LET d == DivFrom(a, n, Len(a), 0) IN [q |-> Norm(d.q), r |-> d.r]

RECURSIVE BitLenSmall(_)
BitLenSmall(x) == IF x = 0 THEN 0 ELSE 1 + BitLenSmall(x \div 2)

BitLen(a) == IF a = <<>> THEN 0 ELSE 14 * (Len(a) - 1) + BitLenSmall(a[Len(a)])

\* floor(a / 2^d)
ShiftRight(a, d) ==
    LET w == d \div 14
        r == d % 14
        p == Pow2(r)
        n == Len(a) - w
    IN  IF n <= 0 THEN <<>>
        ELSE Norm([i \in 1..n |->
                 (a[i + w] \div p) + (Limb(a, i + w + 1) % p) * Pow2(14 - r)])

\* a * 2^d
ShiftLeft(a, d) ==
    LET w == d \div 14
        r == d % 14
    IN  IF a = <<>> THEN <<>>
        ELSE [i \in 1..w |-> 0] \o BigMulSmall(a, Pow2(r))

IsOdd(a) == a # <<>> /\ a[1] % 2 = 1

(***************************************************************************)
(* float64 arithmetic on non-negative magnitudes.                          *)
(***************************************************************************)
MantBits == 53

\* the mantissa q, of which d low bits were cut, rounded to nearest, ties
\* to even: c compares the cut bits with half a unit of q, sticky tells
\* of a further fraction below them
RoundUp(q, d, c, sticky) ==
    ShiftLeft(IF c > 0 \/ (c = 0 /\ (sticky \/ IsOdd(q))) THEN BigAdd(q, <<1>>) ELSE q, d)

RoundCut(a, d, q, sticky) ==
    RoundUp(q, d, BigCmp(BigSub(a, ShiftLeft(q, d)), ShiftLeft(<<1>>, d - 1)), sticky)

\* the double nearest to the exact value a + frac, where frac is a
\* fraction of one unit: 0 (sticky = FALSE) or in (0, 1) (sticky = TRUE)
RoundSticky(a, sticky) ==
    IF BitLen(a) <= MantBits THEN a
    ELSE RoundCut(a, BitLen(a) - MantBits, ShiftRight(a, BitLen(a) - MantBits), sticky)

Round(a) == RoundSticky(a, FALSE)

\* x + y of two doubles
FAdd(x, y) == Round(BigAdd(x, y))

\* x / n of a double x (units of 2^-56) by a count n, in units of 2^-70
FDivCount(x, n) ==
    LET d == BigDivSmall(ShiftLeft(x, 14), n)
    IN  RoundSticky(d.q, d.r # 0)

\* a double of units 2^-56 in the units 2^-70 of a quotient
Fine(x) == ShiftLeft(x, 14)


(***************************************************************************)
(* Values, rows and tables.                                                *)
(***************************************************************************)
NaN == [nan |-> TRUE, v |-> <<>>]
F(x) == [nan |-> FALSE, v |-> x]

\* the doubles the model's tables are built from (units of 2^-56)
Zero     == F(<<>>)
Tenth    == F(<<6554, 9830, 6553, 1638>>)          \* 0.1
Half     == F(<<0, 0, 0, 8192>>)                   \* 0.5
One      == F(<<0, 0, 0, 0, 1>>)                   \* 1.0
Ten      == F(<<0, 0, 0, 0, 10>>)                  \* 10.0
Twenty   == F(<<0, 0, 0, 0, 20>>)                  \* 20.0
Warm     == F(<<3328, 13107, 3276, 4915, 26>>)     \* 26.3
Large    == F(<<0, 0, 3277, 13107, 3276, 819>>)    \* 13421772.8

\* the columns of the CSV contract, in file order (app.py 225-229)
Columns == <<"date", "temperature", "precipitation", "wind_speed", "pressure">>

\* a table that was never loaded: stored-data None, analyzer.df None
NoData == [loaded |-> FALSE, numeric |-> FALSE, cols |-> {}, rows |-> <<>>]

Date(y, m, d) == [year |-> y, month |-> m, day |-> d]

\* a row: its index label, its date and its float64 cells; the cell of a
\* column the table does not have is never read
Row(i, dt, t, p, w, pr) ==
    [idx |-> i, date |-> dt, temperature |-> t, precipitation |-> p,
     wind_speed |-> w, pressure |-> pr]

\* a table of float64 columns beside its date: numeric tells whether the
\* columns have a numeric dtype
Table(cs, rs) == [loaded |-> TRUE, numeric |-> TRUE, cols |-> cs, rows |-> rs]

\* pd.read_csv of the file holding the table: a column of numbers and
\* empty fields is float64, but a file of the header line alone gives
\* columns of dtype object, none of them numeric
read_csv(t) == IF t.loaded THEN [t EXCEPT !.numeric = Len(t.rows) > 0] ELSE t

\* df[col] as the sequence of its cells
Column(df, col) == [i \in 1..Len(df.rows) |-> df.rows[i][col]]

(***************************************************************************)
(* The table on its way through the store of the dashboard: load_data      *)
(* returns df.to_json(date_format='iso', orient='split') and the callbacks *)
(* read it back with pd.read_json(data, orient='split').                   *)
(***************************************************************************)
\* a * b
RECURSIVE BigMul(_, _)
BigMul(a, b) ==
    IF a = <<>> \/ b = <<>> THEN <<>>
    ELSE BigAdd(BigMulSmall(a, b[1]), ShiftLeft(BigMul(a, Tail(b)), 14))

\* the digits of a fraction without its trailing zeros: the fraction as a
\* natural and the count of its decimals
RECURSIVE Trimmed(_, _)
Trimmed(frac, count) ==
    IF BigDivSmall(frac, 10).r # 0 THEN [frac |-> frac, count |-> count]
    ELSE Trimmed(BigDivSmall(frac, 10).q, count - 1)

\* a double as the encoder of to_json writes it: null for NaN, else the
\* whole part and the fraction to the ten decimals of double_precision,
\* trailing zeros dropped.  The encoder works in doubles: tmp = (value -
\* whole) * 1e10 is rounded to a double, its integer part is the fraction,
\* one more where the rest of tmp is above a half, or is a half and the
\* fraction is odd or 0; a fraction of 10^10 carries into the whole part
JsonNumber(x) ==
    IF x.nan THEN [null |-> TRUE, whole |-> <<>>, frac |-> <<>>, count |-> 0]
    ELSE LET whole == ShiftRight(x.v, 56)
             tmp   == Round(BigMul(BigSub(x.v, ShiftLeft(whole, 56)),
                                   <<9216, 4143, 37>>))
             cut   == ShiftRight(tmp, 56)
             diff  == BigCmp(BigSub(tmp, ShiftLeft(cut, 56)), ShiftLeft(<<1>>, 55))
             frac  == IF diff > 0 \/ (diff = 0 /\ (cut = <<>> \/ IsOdd(cut)))
                      THEN BigAdd(cut, <<1>>) ELSE cut
         IN  IF frac = <<9216, 4143, 37>>
             THEN [null |-> FALSE, whole |-> BigAdd(whole, <<1>>), frac |-> <<>>, count |-> 1]
             ELSE IF frac = <<>>
             THEN [null |-> FALSE, whole |-> whole, frac |-> <<>>, count |-> 1]
             ELSE [null  |-> FALSE, whole |-> whole,
                   frac  |-> Trimmed(frac, 10).frac,
                   count |-> Trimmed(frac, 10).count]

\* the double 0.1, 0.01, ... of the decoder's table of powers: the double
\* nearest to 10^-k, in units of 2^-126; q is the floor of 2^126 over the
\* tens divided by so far and r tells of a remainder left
RECURSIVE OverTen(_, _, _)
OverTenNext(d, r, k) ==
    IF d = d THEN OverTen(d.q, r \/ d.r # 0, k - 1) ELSE <<>>

OverTen(q, r, k) ==
    IF k = 0 THEN RoundSticky(q, r) ELSE OverTenNext(BigDivSmall(q, 10), r, k)

g_pow10(k) == OverTen(ShiftLeft(<<1>>, 126), FALSE, k)

\* a number of the JSON text as read_json reads it (precise_float is off):
\* whole + frac * g_pow10[count], the product and the sum each rounded to
\* a double; the result is 0 or at least 2^-4
ParsedNumber(j) ==
    IF j.null THEN NaN
    ELSE F(ShiftRight(Round(BigAdd(ShiftLeft(j.whole, 126),
                                   Round(BigMul(g_pow10(j.count), j.frac)))), 70))

\* the JSON text of a table: its columns, its index labels and its cells
to_json(df) ==
    [loaded |-> df.loaded, cols |-> df.cols,
     rows   |-> [i \in 1..Len(df.rows) |->
                   [f \in DOMAIN df.rows[i] |->
                       IF f \in {"idx", "date"} \/ f \notin df.cols THEN df.rows[i][f]
                       ELSE JsonNumber(df.rows[i][f])]]]

\* the table read back: the numbers parsed, and every column of numbers
\* and nulls float64 or int64, those of a table without rows included
read_json(data) ==
    IF ~data.loaded THEN NoData
    ELSE Table(data.cols,
               [i \in 1..Len(data.rows) |->
                   [f \in DOMAIN data.rows[i] |->
                       IF f \in {"idx", "date"} \/ f \notin data.cols THEN data.rows[i][f]
                       ELSE ParsedNumber(data.rows[i][f])]])

\* the table a callback reads after load_data returned the table df
Stored(df) == read_json(to_json(df))

(***************************************************************************)
(* pandas / numpy reductions.                                              *)
(***************************************************************************)
NonNull(col) == SelectSeq(col, LAMBDA x : ~x.nan)

\* for (i = from; i < stop; i += step) res += a[i], on the 0-based cells
\* of a; each partial sum is evaluated (nxt = nxt) before the loop goes on
RECURSIVE AddLoop(_, _, _, _, _)
AddNext(a, i, step, stop, nxt) ==
    IF nxt = nxt THEN AddLoop(a, i + step, step, stop, nxt) ELSE <<>>

AddLoop(a, i, step, stop, res) ==
    IF i >= stop THEN res
    ELSE AddNext(a, i, step, stop, FAdd(res, a[i + 1]))

\* ((r0 + r1) + (r2 + r3)) + ((r4 + r5) + (r6 + r7)) over r[lo..hi]
RECURSIVE TreeSum(_, _, _)
TreeSum(r, lo, hi) ==
    IF lo = hi THEN r[lo]
    ELSE FAdd(TreeSum(r, lo, (lo + hi - 1) \div 2),
              TreeSum(r, (lo + hi + 1) \div 2, hi))

\* numpy's pairwise summation of a float64 array, which Series.sum and
\* Series.mean reduce with: a plain loop below 8 elements; up to 128
\* elements eight running sums r[j] of a[j], a[j + 8], ..., added up as a
\* tree, then the n % 8 last elements one by one; halves above
RECURSIVE PairwiseSum(_)
PairwiseSum(a) ==
    IF Len(a) <= 128
    THEN AddLoop(a,
                 IF Len(a) < 8 THEN 0 ELSE Len(a) - (Len(a) % 8),
                 1, Len(a),
                 IF Len(a) < 8 THEN <<>>
                 ELSE TreeSum([j \in 0..7 |->
                                 AddLoop(a, j + 8, 8, Len(a) - (Len(a) % 8), a[j + 1])],
                              0, 7))
    ELSE TreeSum([k \in 0..1 |->
                    IF k = 0
                    THEN PairwiseSum(SubSeq(a, 1, Len(a) \div 2 - ((Len(a) \div 2) % 8)))
                    ELSE PairwiseSum(SubSeq(a, Len(a) \div 2 - ((Len(a) \div 2) % 8) + 1,
                                            Len(a)))],
                 0, 1)

\* a mean that counts the null cells as rows; C8 fails under it
MeanOverAllRows(col) ==
    IF Len(NonNull(col)) = 0 THEN NaN
    ELSE F(FDivCount(PairwiseSum([i \in 1..Len(col) |->
                                     IF col[i].nan THEN <<>> ELSE col[i].v]),
                     Len(col)))

\* Series.mean(): nulls are skipped (summed as 0.0, not counted); the mean
\* of no values is NaN.  The result is in units of 2^-70.
Mean(col) ==
    LET count == Len(NonNull(col))
        filled == [i \in 1..Len(col) |-> IF col[i].nan THEN <<>> ELSE col[i].v]
    IN  IF count = 0 THEN NaN
        ELSE F(FDivCount(PairwiseSum(filled), count))

\* signed doubles for the compensated sum of a group-by: [neg, m]
SAdd(x, y) ==
    [neg |-> IF x.neg = y.neg \/ BigLE(y.m, x.m) THEN x.neg ELSE y.neg,
     m   |-> Round(IF x.neg = y.neg THEN BigAdd(x.m, y.m)
                   ELSE IF BigLE(y.m, x.m) THEN BigSub(x.m, y.m)
                   ELSE BigSub(y.m, x.m))]

SSub(x, y) == SAdd(x, [neg |-> ~y.neg, m |-> y.m])

\* the Kahan summation of GroupBy.mean over one group's cells, in row
\* order: y = val - comp; t = sumx + y; comp = t - sumx - y; sumx = t
\* (each step's t and comp are evaluated before the next row)
\* (the rows lo..hi are folded by halves, the left half's state being
\* evaluated before the right half starts from it)
KahanT(s, y, t) == [sumx |-> t, comp |-> SSub(SSub(t, s.sumx), y)]

KahanY(s, y) == KahanT(s, y, SAdd(s.sumx, y))

KahanStep(s, cell) ==
    IF cell.nan THEN s
    ELSE KahanY(s, SSub([neg |-> FALSE, m |-> cell.v], s.comp))

RECURSIVE KahanSum(_, _, _, _)
KahanRest(col, lo, hi, s) ==
    IF s = s THEN KahanSum(col, lo, hi, s) ELSE s

KahanSum(col, lo, hi, s) ==
    IF lo > hi THEN s
    ELSE IF lo = hi THEN KahanStep(s, col[lo])
    ELSE KahanRest(col, (lo + hi) \div 2 + 1, hi,
                   KahanSum(col, lo, (lo + hi) \div 2, s))

\* the cells of a column without repetitions, in order of first appearance
RECURSIVE Distinct(_)
Distinct(col) ==
    IF col = <<>> THEN <<>>
    ELSE LET rest == Distinct(SubSeq(col, 1, Len(col) - 1))
         IN  IF \E i \in 1..Len(rest) : rest[i] = col[Len(col)] THEN rest
             ELSE Append(rest, col[Len(col)])

\* a group mean that counts every distinct value once, however many rows
\* hold it; C5 fails under it
GroupMeanOfDistinct(col) == Mean(Distinct(col))

\* GroupBy.mean() of one group: NaN when the group has no non-null cell
GroupMean(col) ==
    LET count == Len(NonNull(col))
        z == [neg |-> FALSE, m |-> <<>>]
    IN  IF count = 0 THEN NaN
        ELSE F(FDivCount(KahanSum(col, 1, Len(col), [sumx |-> z, comp |-> z]).sumx.m,
                         count))

\* ascending insertion sort of magnitudes
RECURSIVE InsertAsc(_, _)
InsertAsc(s, x) ==
    IF s = <<>> THEN <<x>>
    ELSE IF BigLT(x, s[Len(s)]) THEN InsertAsc(SubSeq(s, 1, Len(s) - 1), x) \o <<s[Len(s)]>>
    ELSE s \o <<x>>

RECURSIVE SortAsc(_)
SortAsc(s) ==
    IF s = <<>> THEN <<>>
    ELSE InsertAsc(SortAsc(SubSeq(s, 1, Len(s) - 1)), s[Len(s)])

\* Series.median(): the middle of the sorted non-null cells, the mean of
\* the two middle ones for an even count; units of 2^-70
MedianOfSorted(vs, n) ==
    IF n = 0 THEN NaN
    ELSE IF n % 2 = 1 THEN F(Fine(vs[(n + 1) \div 2]))
    ELSE F(ShiftLeft(FAdd(vs[n \div 2], vs[n \div 2 + 1]), 13))

Median(col) ==
    MedianOfSorted(SortAsc([i \in 1..Len(NonNull(col)) |-> NonNull(col)[i].v]),
                   Len(NonNull(col)))

\* the position of the last cell holding the largest non-null value; C3
\* fails under this choice among equal cells
ArgMaxLast(col) ==
    LET best == {i \in 1..Len(col) :
                    /\ ~col[i].nan
                    /\ \A k \in 1..Len(col) : ~col[k].nan => BigLE(col[k].v, col[i].v)}
    IN  IF best = {} THEN 0 ELSE CHOOSE i \in best : \A j \in best : j <= i

\* the position of the first cell holding the largest (smallest) non-null
\* value, 0 when every cell is null: numpy's argmax / argmin, NaN skipped
ArgMax(col) ==
    LET best == {i \in 1..Len(col) :
                    /\ ~col[i].nan
                    /\ \A k \in 1..Len(col) : ~col[k].nan => BigLE(col[k].v, col[i].v)}
    IN  IF best = {} THEN 0 ELSE CHOOSE i \in best : \A j \in best : i <= j

ArgMin(col) ==
    LET best == {i \in 1..Len(col) :
                    /\ ~col[i].nan
                    /\ \A k \in 1..Len(col) : ~col[k].nan => BigLE(col[i].v, col[k].v)}
    IN  IF best = {} THEN 0 ELSE CHOOSE i \in best : \A j \in best : i <= j

\* Series.max() / Series.min(): over the non-null cells; units of 2^-70
Max(col) == IF ArgMax(col) = 0 THEN NaN ELSE F(Fine(col[ArgMax(col)].v))
Min(col) == IF ArgMin(col) = 0 THEN NaN ELSE F(Fine(col[ArgMin(col)].v))

\* the standard deviation with ddof = 0, defined for a single value; C16
\* fails under it
StdPopulation(col) == [nan |-> Len(NonNull(col)) < 1]

\* Series.std(), ddof = 1: NaN below two non-null cells.  Only whether the
\* result is NaN is represented, not its magnitude.
Std(col) == [nan |-> Len(NonNull(col)) < 2]

(***************************************************************************)
(* The aggregations of the dashboard (src/app.py).                         *)
(***************************************************************************)
\* df.select_dtypes(include=[np.number]).columns: every column of a
\* numeric dtype, in column order.  The columns of numbers and nulls are
\* float64; those of a table without rows are float64 where a fetch was
\* emptied by dropna() or read_json read the table, and object where
\* read_csv read a header line alone.  A month column, where a table has
\* one, holds integers and is numeric; a season column holds strings and
\* is not
NumericCols(df) ==
    SelectSeq(Columns \o <<"month">>,
              LAMBDA c : c # "date" /\ c \in df.cols /\ (df.numeric \/ c = "month"))

\* the five figures render_statistics and summary_statistics compute of a
\* column: the float64 values of df[col].mean(), .median(), .std(), .min()
\* and .max(), before the page and the console format them to two decimals
ColumnStats(df, c) ==
    LET col == Column(df, c)
    IN  [col |-> c, mean |-> Mean(col), median |-> Median(col),
         std |-> Std(col), min |-> Min(col), max |-> Max(col)]

render_statistics(df) ==
    LET numeric_cols == NumericCols(df)
    IN  {[kind |-> "statistics",
          stats |-> [i \in 1..Len(numeric_cols) |-> ColumnStats(df, numeric_cols[i])]]}

\* what an exception leaves of a call
Raised(exc) == [kind |-> "raised", exc |-> exc]

\* the exceptions of idxmax / idxmin followed by df.loc on a column with no
\* non-null cell: ValueError from idxmax itself, or KeyError from df.loc[nan]
\* where idxmax still returns NaN; an empty float64 column is always a
\* ValueError, and a column of dtype object a TypeError (argmax is not
\* allowed for the dtype)
IdxErrors(df, c) ==
    IF ~df.numeric THEN {"TypeError"}
    ELSE IF Len(df.rows) = 0 THEN {"ValueError"}
    ELSE {"ValueError", "KeyError"}

\* df.loc[label]: the row carrying the index label
Loc(df, label) == CHOOSE r \in {df.rows[i] : i \in 1..Len(df.rows)} : r.idx = label

\* df[col].idxmax() / idxmin(): the index label at the extreme position
IdxMax(df, c) == df.rows[ArgMax(Column(df, c))].idx
IdxMin(df, c) == df.rows[ArgMin(Column(df, c))].idx

\* the extreme-day cards of render_extremes and find_extreme_days: the
\* columns are looked up in the order temperature, precipitation,
\* wind_speed, and the first column without a non-null cell raises.
\* find_extreme_days prints as it goes, so the lines of the columns before
\* the failing one are already out when the exception leaves the call;
\* render_extremes returns nothing of the cards it had built.  Each card
\* formats the date of its row after the lookups of its column: in a table
\* without a date column the first column looked up raises KeyError there,
\* unless its lookup has raised before, and no card or line is out
ExtremeCards(df, printing) ==
    LET wanted == SelectSeq(<<"temperature", "precipitation", "wind_speed">>,
                            LAMBDA c : c \in df.cols)
        bad    == {i \in 1..Len(wanted) : ArgMax(Column(df, wanted[i])) = 0}
        cards(c) ==
            IF c = "temperature"
            THEN <<[role |-> "hottest", col |-> c, row |-> Loc(df, IdxMax(df, c))],
                   [role |-> "coldest", col |-> c, row |-> Loc(df, IdxMin(df, c))]>>
            ELSE IF c = "precipitation"
            THEN <<[role |-> "wettest", col |-> c, row |-> Loc(df, IdxMax(df, c))]>>
            ELSE <<[role |-> "windiest", col |-> c, row |-> Loc(df, IdxMax(df, c))]>>
        all[i \in 0..Len(wanted)] ==
            IF i = 0 THEN <<>> ELSE all[i - 1] \o cards(wanted[i])
    IN  IF "date" \notin df.cols /\ wanted # <<>>
        THEN {IF printing
              THEN [kind |-> "raised", exc |-> e, printed |-> <<>>]
              ELSE Raised(e) :
                  e \in IF 1 \in bad THEN IdxErrors(df, wanted[1]) ELSE {"KeyError"}}
        ELSE IF bad # {}
        THEN LET first == CHOOSE i \in bad : \A j \in bad : i <= j
             IN  {IF printing
                  THEN [kind |-> "raised", exc |-> e, printed |-> all[first - 1]]
                  ELSE Raised(e) : e \in IdxErrors(df, wanted[first])}
        ELSE {[kind |-> "extremes", cards |-> all[Len(wanted)]]}

render_extremes(df) == ExtremeCards(df, FALSE)

\* a comparison that would also call equal means warming; C2 fails under it
FGreaterOrEqual(x, y) == ~x.nan /\ ~y.nan /\ BigCmp(x.v, y.v) >= 0

\* recent_avg > avg_temp on doubles: false when either is NaN
FGreater(x, y) == ~x.nan /\ ~y.nan /\ BigCmp(x.v, y.v) > 0

RecentWindow == 30

\* df['temperature'].iloc[-30:]
RecentRows(col) == SubSeq(col, Len(col) - RecentWindow + 1, Len(col))

\* the trend label of render_insights (app.py 516-518)
TempTrend(df) ==
    LET temps      == Column(df, "temperature")
        avg_temp   == Mean(temps)
        recent_avg == Mean(IF Len(temps) >= RecentWindow THEN RecentRows(temps)
                           ELSE temps)
    IN  IF FGreater(recent_avg, avg_temp) THEN "warming" ELSE "cooling"

\* seasons as quarters of the calendar year, December falling in Fall; C4
\* fails under it
SeasonOfQuarter(x) ==
    IF x \in {1, 2, 3} THEN "Winter"
    ELSE IF x \in {4, 5, 6} THEN "Spring"
    ELSE IF x \in {7, 8, 9} THEN "Summer"
    ELSE "Fall"

\* the season of a month (app.py 532-536)
SeasonOf(x) ==
    IF x \in {12, 1, 2} THEN "Winter"
    ELSE IF x \in {3, 4, 5} THEN "Spring"
    ELSE IF x \in {6, 7, 8} THEN "Summer"
    ELSE "Fall"

\* group keys come out of a group-by sorted: season names alphabetically
SeasonKeys == <<"Fall", "Spring", "Summer", "Winter">>

\* df_seasonal.groupby('season')['temperature'].mean(): one entry per
\* season that has a row, in key order
SeasonalMeans(df) ==
    LET season(i) == SeasonOf(df.rows[i].date.month)
        present   == SelectSeq(SeasonKeys,
                               LAMBDA k : \E i \in 1..Len(df.rows) : season(i) = k)
        cells(k)  == LET rs == SelectSeq(df.rows,
                                         LAMBDA r : SeasonOf(r.date.month) = k)
                     IN  [i \in 1..Len(rs) |-> rs[i].temperature]
    IN  [i \in 1..Len(present) |->
            [season |-> present[i], temp |-> GroupMean(cells(present[i]))]]

\* the bijections of 1..n
Perms(n) == {p \in [1..n -> 1..n] : \A i, j \in 1..n : i # j => p[i] # p[j]}

\* Series.sort_values(ascending=False) with the default kind='quicksort',
\* which is not a stable sort: the non-null entries in descending order,
\* entries of equal value in whichever order the sort leaves them, then the
\* NaN entries in their original order
SortValuesDescending(series) ==
    LET n == Len(series)
        ok(p) ==
            \A i, j \in 1..n : i < j =>
                LET a == series[p[i]].temp
                    b == series[p[j]].temp
                IN  /\ a.nan => b.nan
                    /\ (a.nan /\ b.nan) => p[i] < p[j]
                    /\ (~a.nan /\ ~b.nan) => BigLE(b.v, a.v)
    IN  {[i \in 1..n |-> series[p[i]]] : p \in {q \in Perms(n) : ok(q)}}

\* what render_insights shows (app.py 512-553), given whether the trend
\* and the seasonal section are computed
Insights(df, has_trend, has_seasonal) ==
    LET insights(sd) ==
            [kind |-> "insights",
             has_trend |-> has_trend,
             avg_temp |-> IF has_trend THEN Mean(Column(df, "temperature")) ELSE NaN,
             temp_trend |-> IF has_trend THEN TempTrend(df) ELSE "",
             has_seasonal |-> has_seasonal,
             season_divs |-> sd]
    IN  {insights(sd) : sd \in IF has_seasonal
                               THEN SortValuesDescending(SeasonalMeans(df))
                               ELSE {<<>>}}

\* the guards of app.py 515 and 527
render_insights(df) ==
    Insights(df, "temperature" \in df.cols,
             "date" \in df.cols /\ "temperature" \in df.cols)

\* df.head(50) of render_dataview
render_dataview(df) ==
    {[kind |-> "dataview", data |-> SubSeq(df.rows, 1, IF Len(df.rows) < 50 THEN Len(df.rows) ELSE 50)]}

\* the selector of render_visualizations; the chart is update_visualization's
render_visualizations(df) == {[kind |-> "visualizations", selected |-> "temp_trend"]}

\* df_copy.groupby('month')['temperature'].mean(): one entry per month that
\* has a row, by ascending month
MonthlyAverage(df) ==
    LET present == SelectSeq([m \in 1..12 |-> m],
                             LAMBDA m : \E i \in 1..Len(df.rows) : df.rows[i].date.month = m)
        cells(m) == LET rs == SelectSeq(df.rows, LAMBDA r : r.date.month = m)
                    IN  [i \in 1..Len(rs) |-> rs[i].temperature]
    IN  [i \in 1..Len(present) |->
            [month |-> present[i], temperature |-> GroupMean(cells(present[i]))]]

month_labels ==
    <<"Jan", "Feb", "Mar", "Apr", "May", "Jun", "Jul", "Aug", "Sep", "Oct", "Nov", "Dec">>

\* the chart update_visualization draws for a selector value (app.py 320-383)
update_visualization(viz_type, df) ==
    IF viz_type = "temp_trend" /\ "temperature" \in df.cols
    THEN [kind |-> "temp_trend",
          x |-> [i \in 1..Len(df.rows) |-> df.rows[i].date],
          y |-> Column(df, "temperature")]
    ELSE IF viz_type = "monthly" /\ "temperature" \in df.cols
    THEN LET monthly_avg == MonthlyAverage(df)
         IN  [kind |-> "monthly",
              bars |-> [i \in 1..Len(monthly_avg) |->
                          [month |-> monthly_avg[i].month,
                           month_name |-> month_labels[monthly_avg[i].month],
                           temperature |-> monthly_avg[i].temperature]]]
    ELSE IF viz_type = "all_vars"
    THEN IF NumericCols(df) = <<>> THEN [kind |-> "no_numeric_columns"]
         ELSE [kind |-> "all_vars", traces |-> NumericCols(df)]
    ELSE IF viz_type = "distribution"
    THEN [kind |-> "distribution", options |-> NumericCols(df),
          value |-> IF NumericCols(df) = <<>> THEN "" ELSE NumericCols(df)[1]]
    ELSE [kind |-> "empty"]

(***************************************************************************)
(* The command-line analyzer (src/weather.py).                             *)
(***************************************************************************)
NoDataLoaded == [kind |-> "no_data_loaded"]

summary_statistics(df) ==
    IF ~df.loaded THEN {NoDataLoaded} ELSE render_statistics(df)

find_extreme_days(df) ==
    IF ~df.loaded THEN {NoDataLoaded} ELSE ExtremeCards(df, TRUE)

\* plt.bar(range(1, 13), monthly_avg): twelve bar positions against one
\* height per month that has a row.  Twelve heights pair up with the
\* positions, a single height is broadcast to all twelve, any other count
\* cannot be broadcast and raises ValueError
plot_monthly_averages(df) ==
    IF ~df.loaded \/ "date" \notin df.cols THEN NoDataLoaded
    ELSE IF "temperature" \notin df.cols THEN Raised("KeyError")
    ELSE LET monthly_avg == MonthlyAverage(df)
             k == Len(monthly_avg)
         IN  IF k = 12
             THEN [kind |-> "bars",
                   bars |-> [m \in 1..12 |->
                               [month |-> m, temperature |-> monthly_avg[m].temperature]]]
             ELSE IF k = 1
             THEN [kind |-> "bars",
                   bars |-> [m \in 1..12 |->
                               [month |-> m, temperature |-> monthly_avg[1].temperature]]]
             ELSE Raised("ValueError")

(***************************************************************************)
(* What a call leaves of the table it was given.  A renderer holds the     *)
(* table under the caller's name and, after df.copy(), a second table      *)
(* under a local name; a column assignment writes through the local name.  *)
(***************************************************************************)

\* a row with one more cell
WithCell(r, name, x) ==
    [f \in DOMAIN r \cup {name} |-> IF f = name THEN x ELSE r[f]]

\* a local name bound to the caller's table itself; C12 fails under it
DfAlias(df) == [caller |-> df, local |-> df, same_object |-> TRUE]

\* df.copy(): the local name is bound to a new table with the same cells
DfCopy(df) == [caller |-> df, local |-> df, same_object |-> FALSE]

\* local[name] = values, one value per row: the column is added to the
\* table the local name is bound to
AssignColumn(h, name, values) ==
    LET assigned(df) ==
            [loaded  |-> df.loaded,
             numeric |-> df.numeric,
             cols    |-> df.cols \cup {name},
             rows    |-> [i \in 1..Len(df.rows) |->
                             WithCell(df.rows[i], name, values[i])]]
    IN  [caller      |-> IF h.same_object THEN assigned(h.caller) ELSE h.caller,
         local       |-> assigned(h.local),
         same_object |-> h.same_object]

\* the cell of a month column: the month number, as the number a
\* reduction over the column reads
MonthCell(m) == F(<<0, 0, 0, 0, m>>)
MonthOfCell(x) == x.v[5]

\* df_copy = df.copy(); df_copy['month'] = ...dt.month
\* (app.py 338-339, weather.py 104-105)
WithMonth(df) ==
    AssignColumn(DfCopy(df), "month",
                 [i \in 1..Len(df.rows) |-> MonthCell(df.rows[i].date.month)])

\* df_seasonal = df.copy() with the month and the season column
\* (app.py 530-536)
WithSeason(df) ==
    LET h == WithMonth(df)
    IN  AssignColumn(h, "season",
                     [i \in 1..Len(h.local.rows) |->
                         SeasonOf(MonthOfCell(h.local.rows[i].month))])

\* the table render_tab_content parsed, as the renderer of the tab leaves
\* it: only render_insights writes a column, and only in its seasonal part
TabFrame(active_tab, df) ==
    IF /\ df.loaded
       /\ active_tab = "insights"
       /\ "date" \in df.cols
       /\ "temperature" \in df.cols
    THEN WithSeason(df).caller
    ELSE df

\* the table update_visualization parsed, as the chart leaves it
VizFrame(viz_type, df) ==
    IF df.loaded /\ viz_type = "monthly" /\ "temperature" \in df.cols
    THEN WithMonth(df).caller
    ELSE df

\* the plot writing its month column into self.df itself; C13 fails under it
plot_monthly_averages_inplace(df) ==
    IF ~df.loaded \/ "date" \notin df.cols THEN df
    ELSE AssignColumn(DfAlias(df), "month",
                      [i \in 1..Len(df.rows) |-> MonthCell(df.rows[i].date.month)]).caller

\* self.df after plot_monthly_averages
plot_monthly_averages_df(df) ==
    IF ~df.loaded \/ "date" \notin df.cols THEN df ELSE WithMonth(df).caller

(***************************************************************************)
(* What the installed libraries decide.  Which exception an all-null       *)
(* idxmax ends in depends on the pandas version, and the order in which    *)
(* the quicksort of sort_values leaves equal values depends on the numpy   *)
(* build; both are the same for every call of one running program.         *)
(***************************************************************************)
Builds == [idx_error : {"ValueError", "KeyError"}, ties : {"kept", "reversed"}]

\* no library fixed: every outcome some build gives
AnyBuild == [idx_error |-> "any", ties |-> "any"]

\* the place of a season among the group keys
SeasonPlace(season) == CHOOSE k \in 1..Len(SeasonKeys) : SeasonKeys[k] = season

\* the seasons of equal mean are in the order the build's sort leaves them
TiesAsBuilt(b, divs) ==
    \A i, j \in 1..Len(divs) :
        (i < j /\ ~divs[i].temp.nan /\ divs[i].temp = divs[j].temp) =>
            IF b.ties = "kept"
            THEN SeasonPlace(divs[i].season) < SeasonPlace(divs[j].season)
            ELSE SeasonPlace(divs[i].season) > SeasonPlace(divs[j].season)

\* the outcomes of a call that the build gives
OfBuild(b, outs) ==
    {o \in outs :
        /\ (o.kind = "raised" /\ b.idx_error # "any") =>
              \/ o.exc = b.idx_error
              \/ \A q \in outs : q.exc # b.idx_error
        /\ (o.kind = "insights" /\ b.ties # "any") => TiesAsBuilt(b, o.season_divs)}

(***************************************************************************)
(* State.                                                                  *)
(***************************************************************************)
VARIABLES
    stored,        \* dcc.Store 'stored-data': the table the callbacks read
    analyzer_df,   \* WeatherDataAnalyzer.df
    tab_content,   \* the last render_tab_content call: its tab, data, result
                   \* and the parsed table as the renderer left it
    viz_content,   \* the last update_visualization call
    cli_out,       \* the last analyzer method call and what it printed
    build,         \* what the installed pandas and numpy decide
    status,        \* the last load_data callback: its trigger, its input and
                   \* the message it returned for 'status-message'
    req            \* the 'Get Data' requests being handled at the same time:
                   \* where each one is, its local table and its response

vars == <<stored, analyzer_df, tab_content, viz_content, cli_out, build,
          status, req>>

NoCall == [kind |-> "none"]

Tabs == {"statistics", "visualizations", "extremes", "dataview", "insights"}
VizTypes == {"temp_trend", "monthly", "all_vars", "distribution"}

\* render_tab_content (app.py 217-246): the placeholder without data,
\* otherwise the renderer of the active tab on the stored table
TabOutcomes(active_tab, data) ==
    IF ~data.loaded THEN {[kind |-> "placeholder"]}
    ELSE IF active_tab = "statistics" THEN render_statistics(data)
    ELSE IF active_tab = "visualizations" THEN render_visualizations(data)
    ELSE IF active_tab = "extremes" THEN render_extremes(data)
    ELSE IF active_tab = "dataview" THEN render_dataview(data)
    ELSE render_insights(data)

RenderTabContent(active_tab) ==
    /\ \E children \in OfBuild(build, TabOutcomes(active_tab, stored)) :
          tab_content' = [tab |-> active_tab, data |-> stored,
                          frame |-> TabFrame(active_tab, stored),
                          children |-> children]
    /\ UNCHANGED <<stored, analyzer_df, viz_content, cli_out, build, status, req>>

UpdateVisualization(viz_type) ==
    /\ viz_content' =
          [viz_type |-> viz_type, data |-> stored,
           frame |-> VizFrame(viz_type, stored),
           children |-> IF ~stored.loaded THEN [kind |-> "empty"]
                        ELSE update_visualization(viz_type, stored)]
    /\ UNCHANGED <<stored, analyzer_df, tab_content, cli_out, build, status, req>>

SummaryStatistics ==
    /\ \E printed \in OfBuild(build, summary_statistics(analyzer_df)) :
          cli_out' = [method |-> "summary_statistics", df |-> analyzer_df,
                      printed |-> printed]
    /\ UNCHANGED <<stored, analyzer_df, tab_content, viz_content, build, status, req>>

FindExtremeDays ==
    /\ \E printed \in OfBuild(build, find_extreme_days(analyzer_df)) :
          cli_out' = [method |-> "find_extreme_days", df |-> analyzer_df,
                      printed |-> printed]
    /\ UNCHANGED <<stored, analyzer_df, tab_content, viz_content, build, status, req>>

PlotMonthlyAverages ==
    /\ cli_out' = [method |-> "plot_monthly_averages", df |-> analyzer_df,
                   printed |-> plot_monthly_averages(analyzer_df)]
    /\ analyzer_df' = plot_monthly_averages_df(analyzer_df)
    /\ UNCHANGED <<stored, tab_content, viz_content, build, status, req>>

(***************************************************************************)
(* The tables the checks run on.  Every one is a table a load can store:   *)
(* an uploaded CSV is indexed 0, 1, 2, ...; a fetched table went through   *)
(* dropna(), which keeps the labels of the rows it leaves.                 *)
(***************************************************************************)
MaxRows == 3
MaxHead == 2
MaxExtra == 2
MaxShort == 2
MaxExtraRows == 2

AllCols == {Columns[i] : i \in 1..Len(Columns)}

\* short tables: any row order, nulls, repeated months, missing column;
\* the dates have a month of every season
SmallDates ==
    {Date(2023, 1, 15), Date(2023, 10, 15), Date(2023, 12, 1),
     Date(2024, 1, 1), Date(2024, 4, 1), Date(2024, 7, 1)}
SmallTemps == {NaN, Tenth, Ten}

SmallRow(i, d, t) ==
    Row(i - 1, d, t,
        IF d.month = 7 THEN Half ELSE Zero,
        IF d.day = 1 THEN One ELSE NaN,
        IF d.year = 2023 THEN NaN ELSE Ten)

SmallTables ==
    UNION {
        {Table(AllCols, [i \in 1..n |-> SmallRow(i, c[i][1], c[i][2])]) :
            c \in [1..n -> SmallDates \X SmallTemps]}
        \cup
        {Table(AllCols \ {"temperature"}, [i \in 1..n |-> SmallRow(i, c[i], NaN)]) :
            c \in [1..n -> SmallDates]}
      : n \in 0..MaxRows}

\* DataFrame.dropna(): the rows without a null cell, index labels kept
DropNa(df) ==
    Table(df.cols,
          SelectSeq(df.rows, LAMBDA r : \A c \in df.cols \ {"date"} : ~r[c].nan))

FetchedTables == {DropNa(t) : t \in {u \in SmallTables : u.cols = AllCols}}

\* the short tables of two dates, for the statistics: a January row has no
\* wind speed and no pressure, a July row has every cell but, possibly, the
\* temperature; and the tables of July rows with a temperature of
\* 13421772.8, where a double has nine decimals
StatDates == {Date(2023, 1, 15), Date(2024, 7, 1)}
StatTables ==
    {t \in SmallTables \cup FetchedTables :
        \A i \in 1..Len(t.rows) : t.rows[i].date \in StatDates}
    \cup {Table(AllCols, [i \in 1..n |-> SmallRow(i, Date(2024, 7, 1), Large)]) :
             n \in 1..MaxRows}

\* tables of one or two rows of any calendar month, with a temperature of
\* 10.0 or of 13421772.8, where a double has nine decimals
MaxMonthRows == 2
MonthTables ==
    UNION {
        {Table(AllCols, [i \in 1..n |-> SmallRow(i, c[i][1], c[i][2])]) :
            c \in [1..n -> {Date(2024, m, 1) : m \in 1..12} \X {Ten, Large}]}
      : n \in 1..MaxMonthRows}

\* the shortest of them, with a temperature of 10.0 or none: the tables on
\* which every tab, chart and report is run again and again
MaxRepeatRows == 2
RepeatTables ==
    {t \in StatTables :
        /\ Len(t.rows) <= MaxRepeatRows
        /\ \A i \in 1..Len(t.rows) : t.rows[i].temperature \in {NaN, Ten}}

\* tables around the 30-row window of the trend: h rows of one value at
\* one end, the other rows of a second value, one row per day from
\* 2024-01-01, columns date and temperature
TrendTemps == {NaN, Tenth, Half, Warm}
TrendLens == (1..MaxShort) \cup ((RecentWindow - 1)..(RecentWindow + MaxExtra))

DayDate(i) == IF i <= 31 THEN Date(2024, 1, i) ELSE Date(2024, 2, i - 31)

TrendTable(n, h, a, b, atEnd) ==
    Table({"date", "temperature"},
          [i \in 1..n |->
              Row(i - 1, DayDate(i),
                  IF (~atEnd /\ i <= h) \/ (atEnd /\ i > n - h) THEN a ELSE b,
                  NaN, NaN, NaN)])

TrendTables ==
    {TrendTable(n, h, ab[1], ab[2], atEnd) :
        n \in TrendLens, h \in 0..MaxHead, ab \in TrendTemps \X TrendTemps,
        atEnd \in BOOLEAN}

\* the same records listed newest first, as a CSV in descending date order
\* is read: the rows in reverse, indexed 0, 1, 2, ... by their place
NewestFirst(df) ==
    LET n == Len(df.rows)
    IN  Table(df.cols,
              [i \in 1..n |-> [df.rows[n + 1 - i] EXCEPT !.idx = i - 1]])

OrderTables == TrendTables \cup {NewestFirst(t) : t \in TrendTables}

\* CSV files of temperatures that rise from row to row: 31 rows or a few
\* more, one per day from 2024-01-01, the first temperature one of six
\* and every next one the double nearest to the one before plus a step.
\* Huge is 2^51 + 1, where the doubles are 0.5 apart.  The steps are
\* 2^-48 (one unit in the last place of 26.3, lost in the ten decimals of
\* the store), 7205759 * 2^-56 (the model's unit count nearest to 1e-10;
\* the store turns the sums into the doubles nearest to the sums with
\* 1e-10), 0.1, 0.5 and 1
MaxGrow == 2
Huge == F(<<0, 0, 0, 0, 1, 0, 0, 512>>)
RiseStarts == {Tenth, Half, One, Ten, Warm, Huge}
LastPlace == F(<<256>>)
TenthDecimal == F(<<13183, 439>>)
RiseSteps == {LastPlace, TenthDecimal, Tenth, Half, One}

RECURSIVE Rising(_, _, _)
Rising(n, start, step) ==
    IF n = 1 THEN <<start>>
    ELSE LET before == Rising(n - 1, start, step)
         IN  Append(before, F(FAdd(before[n - 1].v, step.v)))

RiseTable(n, start, step) ==
    LET temps == Rising(n, start, step)
    IN  Table({"date", "temperature"},
              [i \in 1..n |-> Row(i - 1, DayDate(i), temps[i], NaN, NaN, NaN)])

RiseTables ==
    {RiseTable(n, start, step) :
        n \in (RecentWindow + 1)..(RecentWindow + 1 + MaxGrow),
        start \in RiseStarts, step \in RiseSteps}

\* two years in which every month has one temperature: a row on the first
\* of every month of 2023 and 2024, and e more rows in 2024 for each of the
\* months 1..k; the month's temperature is one of four, by rotation s, or
\* 13421772.8 in every month
MonthTemps == <<Ten, Twenty, Warm, Tenth>>
MonthTemp(s, m) == IF s = 4 THEN Large ELSE MonthTemps[((m + s) % 4) + 1]

RECURSIVE YearRows(_, _, _, _, _)
YearRows(y, m, s, k, e) ==
    IF m > 12 THEN <<>>
    ELSE LET cnt == IF y = 2024 /\ m <= k THEN 1 + e ELSE 1
         IN  [d \in 1..cnt |-> [date |-> Date(y, m, d), t |-> MonthTemp(s, m)]]
             \o YearRows(y, m + 1, s, k, e)

SeasonTable(s, k, e) ==
    LET rs == YearRows(2023, 1, s, k, e) \o YearRows(2024, 1, s, k, e)
    IN  Table({"date", "temperature"},
              [i \in 1..Len(rs) |-> Row(i - 1, rs[i].date, rs[i].t, NaN, NaN, NaN)])

SeasonTables ==
    {SeasonTable(s, k, e) : s \in 0..4, k \in 0..12, e \in 1..MaxExtraRows}

(***************************************************************************)
(* Fetching.  fetch_real_data asks the provider for the days of a city,    *)
(* drops the days with a missing value and keeps the table in self.df.     *)
(***************************************************************************)
\* the keys of city_coords (weather.py 177-185)
city_coords ==
    {"Nagpur", "New Delhi", "Mumbai", "Chennai", "Bengaluru", "Kolkata", "Hyderabad"}

\* the requests: two cities of the dropdown and one city_coords lacks, for
\* a few days
MaxDays == 2
FetchCities == {"Nagpur", "Mumbai", "Pune"}
FetchDays == 1..MaxDays

\* what the provider answers: every day complete, the first day without a
\* pressure, or nothing but an exception
ProviderAnswers == {"complete", "gap", "down"}

\* data.fetch().reset_index(), renamed and cut to the five columns: one
\* row per day asked for, the temperature that of the city
ProviderTable(city, days, answer) ==
    Table(AllCols,
          [i \in 1..days |->
              Row(i - 1, DayDate(i), IF city = "Nagpur" THEN Warm ELSE Twenty,
                  Zero, One, IF answer = "gap" /\ i = 1 THEN NaN ELSE Ten)])

\* fetch_real_data (weather.py 170-213) on an analyzer holding self_df:
\* self.df after the call, and the table returned or the exception raised
fetch_real_data(self_df, city, days, answer) ==
    IF city \notin city_coords
    THEN [df |-> self_df, out |-> Raised("ValueError")]
    ELSE IF answer = "down"
    THEN [df |-> self_df, out |-> Raised("ConnectionError")]
    ELSE LET df == DropNa(ProviderTable(city, days, answer))
         IN  [df |-> df, out |-> [kind |-> "returned", value |-> df]]

(***************************************************************************)
(* The load_data callback of the dashboard.                                *)
(***************************************************************************)
\* what an upload can hold: a CSV of the contract, a CSV without a date
\* column, bytes read_csv cannot parse, or nothing
UploadTables ==
    {Table(AllCols, [i \in 1..n |-> SmallRow(i, Date(2024, 7, 1), Ten)]) : n \in 0..2}

Uploads ==
    {[kind |-> "csv", table |-> t] : t \in UploadTables}
    \cup {[kind |-> "csv", table |-> Table(t.cols \ {"date"}, t.rows)] :
             t \in {u \in UploadTables : Len(u.rows) = 1}}
    \cup {[kind |-> "malformed", table |-> NoData], [kind |-> "nothing", table |-> NoData]}

\* the callback letting the exception go: Dash then updates no output; C18
\* fails under it
reraise(exc) == Raised(exc)

\* except Exception as e: return None, the error message (app.py 184-188)
except_Exception(exc) ==
    [kind |-> "returned", data |-> NoData, message |-> [kind |-> "error", exc |-> exc]]

\* load_data (app.py 155-190) on a trigger that does not fetch: what it
\* returns for 'stored-data', as the callbacks read it back, and for
\* 'status-message'.  An upload is read, its dates converted and the table
\* returned; an empty upload and a button that was never clicked return
\* None and an empty message.  The fetch branch (app.py 175-182) works on
\* the analyzer all requests share and is taken in steps, below.
load_data(trigger_id, contents, n_clicks) ==
    IF trigger_id = "upload-data" /\ contents.kind # "nothing"
    THEN IF contents.kind = "malformed" THEN except_Exception("ParserError")
         ELSE IF "date" \notin contents.table.cols THEN except_Exception("KeyError")
         ELSE [kind |-> "returned", data |-> Stored(read_csv(contents.table)),
               message |-> [kind |-> "loaded", rows |-> Len(contents.table.rows)]]
    ELSE [kind |-> "returned", data |-> NoData, message |-> [kind |-> "empty"]]

\* one upload: the callback runs on the upload alone, and what it returns
\* goes to 'stored-data' and 'status-message' (app.py 146-148); an
\* exception leaving the callback would go to neither
Upload(contents) ==
    \E out \in {load_data("upload-data", contents, 0)} :
        /\ stored' = IF out.kind = "raised" THEN stored ELSE out.data
        /\ status' = [event   |-> [trigger_id |-> "upload-data", contents |-> contents,
                                   n_clicks |-> 0, city |-> "", days |-> 0,
                                   answer |-> ""],
                      message |-> IF out.kind = "raised" THEN out ELSE out.message]
        /\ UNCHANGED <<analyzer_df, tab_content, viz_content, cli_out, build, req>>

(***************************************************************************)
(* The loads of a WeatherDataAnalyzer (src/weather.py).                    *)
(***************************************************************************)
\* the files load_data is pointed at: a CSV, with or without a date
\* column, or a path read_csv fails on
Files == {u \in Uploads : u.kind # "nothing"}

\* load_data that forgets the table it held when the read fails; C19
\* fails under it
WeatherDataAnalyzer_load_data_clearing(self_df, file) ==
    IF file.kind = "csv"
    THEN [df |-> read_csv(file.table), out |-> [kind |-> "returned", value |-> TRUE]]
    ELSE [df |-> NoData, out |-> [kind |-> "returned", value |-> FALSE]]

\* WeatherDataAnalyzer.load_data (weather.py 15-24): self.df is assigned
\* only when read_csv returned; the dates stay as they were read
WeatherDataAnalyzer_load_data(self_df, file) ==
    IF file.kind = "csv"
    THEN [df |-> read_csv(file.table), out |-> [kind |-> "returned", value |-> TRUE]]
    ELSE [df |-> self_df, out |-> [kind |-> "returned", value |-> FALSE]]

\* the tables create_sample_data can draw for a number of days: one row
\* per day, every cell a number
SampleTables(days) ==
    {Table(AllCols,
           [i \in 1..days |-> Row(i - 1, DayDate(i), t, Half, One, Ten)]) :
        t \in {Ten, Twenty}}

\* create_sample_data (weather.py 26-43); a negative number of days raises
\* in np.random.randn before self.df is assigned
create_sample_data(self_df, days) ==
    IF days < 0 THEN {[df |-> self_df, out |-> Raised("ValueError")]}
    ELSE {[df |-> t, out |-> [kind |-> "returned", value |-> t]] : t \in SampleTables(days)}

SampleDays == (-1)..MaxDays

AnalyzerLoadData(file) ==
    LET res == WeatherDataAnalyzer_load_data(analyzer_df, file)
    IN  /\ analyzer_df' = res.df
        /\ cli_out' = [method |-> "load_data", args |-> <<file>>,
                       df |-> analyzer_df, printed |-> res.out]
        /\ UNCHANGED <<stored, tab_content, viz_content, build, status, req>>

CreateSampleData(days) ==
    \E res \in create_sample_data(analyzer_df, days) :
        /\ analyzer_df' = res.df
        /\ cli_out' = [method |-> "create_sample_data", args |-> <<days>>,
                       df |-> analyzer_df, printed |-> res.out]
        /\ UNCHANGED <<stored, tab_content, viz_content, build, status, req>>

FetchRealData(city, days, answer) ==
    LET res == fetch_real_data(analyzer_df, city, days, answer)
    IN  /\ analyzer_df' = res.df
        /\ cli_out' = [method |-> "fetch_real_data", args |-> <<city, days, answer>>,
                       df |-> analyzer_df, printed |-> res.out]
        /\ UNCHANGED <<stored, tab_content, viz_content, build, status, req>>

(***************************************************************************)
(* 'Get Data' requests handled at the same time, each in a thread of the   *)
(* server, on the one analyzer of the module (app.py 17).  A thread can be *)
(* suspended between any two of its accesses to analyzer.df.               *)
(***************************************************************************)
Requests == {1, 2}

Idle ==
    [pc |-> "idle", n_clicks |-> 0, city |-> "", days |-> 0, answer |-> "",
     df |-> NoData, response |-> NoCall]

\* load_data, fetch branch, up to the local table of fetch_real_data
\* (app.py 175-176, weather.py 187-209); an exception ends the request
\* with stored data None and the error message (app.py 184-188)
FetchCall(r, city, days, answer) ==
    /\ req[r].pc = "idle"
    /\ LET res == fetch_real_data(NoData, city, days, answer)
       IN  req' = [req EXCEPT ![r] =
                IF res.out.kind = "raised"
                THEN [pc |-> "done", n_clicks |-> 1, city |-> city, days |-> days,
                      answer |-> answer, df |-> NoData,
                      response |-> except_Exception(res.out.exc)]
                ELSE [pc |-> "fetched", n_clicks |-> 1, city |-> city, days |-> days,
                      answer |-> answer, df |-> res.out.value, response |-> NoCall]]
    /\ UNCHANGED <<stored, analyzer_df, tab_content, viz_content, cli_out, build, status>>

\* self.df = df (weather.py 211)
FetchAssign(r) ==
    /\ req[r].pc = "fetched"
    /\ analyzer_df' = req[r].df
    /\ req' = [req EXCEPT ![r].pc = "assigned"]
    /\ UNCHANGED <<stored, tab_content, viz_content, cli_out, build, status>>

\* df = analyzer.df; return df.to_json(...), message (app.py 177-182)
FetchRespond(r) ==
    /\ req[r].pc = "assigned"
    /\ req' = [req EXCEPT ![r].pc = "done",
                          ![r].response =
                              [kind |-> "returned", data |-> Stored(analyzer_df),
                               message |-> [kind |-> "fetched", city |-> req[r].city,
                                            days |-> req[r].days]]]
    /\ UNCHANGED <<stored, analyzer_df, tab_content, viz_content, cli_out, build, status>>

\* the button of 'Get Data' triggers load_data in a thread of its own:
\* with a click the fetch branch starts, without one the callback returns
\* None and an empty message at once (app.py 175, 190)
GetData(r, n_clicks, city, days, answer) ==
    IF n_clicks > 0 THEN FetchCall(r, city, days, answer)
    ELSE /\ req[r].pc = "idle"
         /\ req' = [req EXCEPT ![r] =
                       [pc |-> "done", n_clicks |-> n_clicks, city |-> city,
                        days |-> days, answer |-> answer, df |-> NoData,
                        response |-> load_data("fetch-btn", [kind |-> "nothing", table |-> NoData],
                                              n_clicks)]]
         /\ UNCHANGED <<stored, analyzer_df, tab_content, viz_content, cli_out,
                        build, status>>

\* what a request returned goes to 'stored-data' and 'status-message'
\* (app.py 146-148), whatever the other requests are doing, and its thread
\* is free again; an exception leaving the callback would go to neither
Output(r) ==
    /\ req[r].pc = "done"
    /\ stored' = IF req[r].response.kind = "raised" THEN stored
                 ELSE req[r].response.data
    /\ status' = [event   |-> [trigger_id |-> "fetch-btn",
                               contents |-> [kind |-> "nothing", table |-> NoData],
                               n_clicks |-> req[r].n_clicks, city |-> req[r].city,
                               days |-> req[r].days, answer |-> req[r].answer],
                  message |-> IF req[r].response.kind = "raised" THEN req[r].response
                              ELSE req[r].response.message]
    /\ req' = [req EXCEPT ![r] = Idle]
    /\ UNCHANGED <<analyzer_df, tab_content, viz_content, cli_out, build>>

\* the request came from another browser: what it returned goes to the
\* 'stored-data' and 'status-message' of that browser, and this one keeps
\* what it has
OutputElsewhere(r) ==
    /\ req[r].pc = "done"
    /\ req' = [req EXCEPT ![r] = Idle]
    /\ UNCHANGED <<stored, status, analyzer_df, tab_content, viz_content, cli_out, build>>

(***************************************************************************)
(* Specifications: the handlers applied to the table in place.  Nothing    *)
(* was loaded since construction, or a CSV file holding one of the tables  *)
(* was uploaded to the dashboard, which has it as the store gives it back, *)
(* and loaded into the analyzer, which has it as read_csv read it.         *)
(***************************************************************************)
InitBuilt(tables, builds) ==
    /\ \E t \in tables :
          /\ stored = Stored(read_csv(t))
          /\ analyzer_df = read_csv(t)
    /\ tab_content = NoCall
    /\ viz_content = NoCall
    /\ cli_out = NoCall
    /\ build \in builds
    /\ status = NoCall
    /\ req = <<>>

InitWith(tables) == InitBuilt(tables, {AnyBuild})

InitSmall == InitWith({NoData} \cup SmallTables \cup FetchedTables)
InitStats == InitWith({NoData} \cup StatTables)
InitTrend == InitWith(TrendTables)
InitSeason == InitWith(SeasonTables)

\* the builds that differ on a table: where the table has no all-null
\* column the exception of idxmax is never asked for, and where no two
\* seasons have the same mean the sort has no tie to order
BuildsFor(df) ==
    {b \in Builds :
        /\ b.idx_error = "KeyError" =>
              \E c \in {"temperature", "precipitation", "wind_speed"} \cap df.cols :
                  Len(df.rows) > 0 /\ NonNull(Column(df, c)) = <<>>
        /\ b.ties = "reversed" =>
              /\ {"date", "temperature"} \subseteq df.cols
              /\ LET means == SeasonalMeans(df)
                 IN  \E i, j \in 1..Len(means) :
                        i < j /\ ~means[i].temp.nan /\ means[i].temp = means[j].temp}

InitRise == InitWith(RiseTables)

\* the application after start, nothing loaded
InitApp ==
    /\ stored = NoData
    /\ analyzer_df = NoData
    /\ tab_content = NoCall
    /\ viz_content = NoCall
    /\ cli_out = NoCall
    /\ build = AnyBuild
    /\ status = NoCall
    /\ req = <<>>

\* the application after start, nothing loaded, the threads of the
\* requests free
InitFetch ==
    /\ stored = NoData
    /\ analyzer_df = NoData
    /\ tab_content = NoCall
    /\ viz_content = NoCall
    /\ cli_out = NoCall
    /\ build = AnyBuild
    /\ status = NoCall
    /\ req = [r \in Requests |-> Idle]
InitOrder == InitWith(OrderTables)

InitRepeat ==
    /\ InitBuilt({NoData} \cup RepeatTables, Builds)
    /\ build \in BuildsFor(stored)

NextInsights == RenderTabContent("insights")
NextStats == RenderTabContent("statistics") \/ SummaryStatistics
NextExtremes == RenderTabContent("extremes") \/ FindExtremeDays
NextMonthly == UpdateVisualization("monthly") \/ PlotMonthlyAverages

\* the clicks on 'Get Data' of the checks of load_data, for one day: a
\* city the provider answers or fails, a city that is not supported, and
\* the button before its first click
Clicks ==
    {[n_clicks |-> 1, city |-> city, days |-> 1, answer |-> answer] :
        city \in FetchCities \cap city_coords, answer \in {"complete", "down"}}
    \cup {[n_clicks |-> 1, city |-> city, days |-> 1, answer |-> "complete"] :
             city \in FetchCities \ city_coords}
    \cup {[n_clicks |-> 0, city |-> "Nagpur", days |-> 1, answer |-> "complete"]}

\* uploads, and clicks on 'Get Data' whose requests run side by side
NextLoad ==
    \/ \E contents \in Uploads : Upload(contents)
    \/ \E r \in Requests, c \in Clicks :
          GetData(r, c.n_clicks, c.city, c.days, c.answer)
    \/ \E r \in Requests : FetchAssign(r)
    \/ \E r \in Requests : FetchRespond(r)
    \/ \E r \in Requests : Output(r)
    \/ \E r \in Requests : OutputElsewhere(r)
    \/ \E active_tab \in Tabs : RenderTabContent(active_tab)

NextAnalyzer ==
    \/ \E file \in Files : AnalyzerLoadData(file)
    \/ \E days \in SampleDays : CreateSampleData(days)
    \/ \E city \in FetchCities, days \in FetchDays, answer \in ProviderAnswers :
          FetchRealData(city, days, answer)
    \/ SummaryStatistics
    \/ FindExtremeDays

NextFetch ==
    \/ \E r \in Requests, city \in FetchCities, days \in FetchDays,
          answer \in ProviderAnswers : FetchCall(r, city, days, answer)
    \/ \E r \in Requests : FetchAssign(r)
    \/ \E r \in Requests : FetchRespond(r)

\* every tab, every chart and every analyzer report
Next ==
    \/ \E active_tab \in Tabs : RenderTabContent(active_tab)
    \/ \E viz_type \in VizTypes : UpdateVisualization(viz_type)
    \/ SummaryStatistics
    \/ FindExtremeDays
    \/ PlotMonthlyAverages

SpecTrend == InitTrend /\ [][NextInsights]_vars
SpecSeason == InitSeason /\ [][NextInsights]_vars
SpecInsights ==
    /\ InitWith({NoData} \cup SmallTables \cup FetchedTables \cup MonthTables)
    /\ [][NextInsights]_vars
SpecStats == InitStats /\ [][NextStats]_vars
SpecExtremes == InitSmall /\ [][NextExtremes]_vars
SpecMonthly == InitSmall /\ [][NextMonthly]_vars
Spec == InitStats /\ [][Next]_vars
SpecOrder == InitOrder /\ [][NextInsights]_vars
SpecLoad == InitFetch /\ [][NextLoad]_vars
SpecAnalyzer == InitApp /\ [][NextAnalyzer]_vars
SpecFetch == InitFetch /\ [][NextFetch]_vars
SpecRise == InitRise /\ [][NextInsights]_vars
SpecRepeat == InitRepeat /\ [][Next]_vars

(***************************************************************************)
(* Properties.                                                             *)
(***************************************************************************)
\* the insights tab was rendered from a table
InsightsCalled == tab_content # NoCall /\ tab_content.children.kind = "insights"

\* the exact sum of the non-null cells of a column, without rounding
RECURSIVE ExactSum(_, _, _)
ExactSum(col, lo, hi) ==
    IF lo > hi THEN <<>>
    ELSE IF lo = hi THEN (IF col[lo].nan THEN <<>> ELSE col[lo].v)
    ELSE BigAdd(ExactSum(col, lo, (lo + hi) \div 2),
                ExactSum(col, (lo + hi) \div 2 + 1, hi))

\* mean(a) > mean(b) over the non-null cells, in exact arithmetic; false
\* when either column has no non-null cell
ExactMeanGreater(a, b) ==
    /\ NonNull(a) # <<>>
    /\ NonNull(b) # <<>>
    /\ BigCmp(BigMulSmall(ExactSum(a, 1, Len(a)), Len(NonNull(b))),
              BigMulSmall(ExactSum(b, 1, Len(b)), Len(NonNull(a)))) > 0

\* the last min(30, n) cells of a column
LastRows(col) ==
    SubSeq(col, IF Len(col) > RecentWindow THEN Len(col) - RecentWindow + 1 ELSE 1,
           Len(col))

\* C1: for every table with a temperature column the trend is 'warming'
\* exactly when the mean temperature of the last min(30, n) rows is
\* strictly greater than the mean temperature of all rows, and 'cooling'
\* otherwise, so that a table of equal temperatures is 'cooling'.
C1_TrendComparesTheMeans ==
    (InsightsCalled /\ tab_content.children.has_trend) =>
        LET temps == Column(tab_content.data, "temperature")
        IN  tab_content.children.temp_trend =
                IF ExactMeanGreater(LastRows(temps), temps) THEN "warming" ELSE "cooling"

\* C2: for every table with a temperature column and at most 30 rows,
\* whatever its temperatures, the trend is 'cooling'.
C2_AtMostThirtyRowsCooling ==
    (InsightsCalled /\ tab_content.children.has_trend
        /\ Len(tab_content.data.rows) <= RecentWindow) =>
        tab_content.children.temp_trend = "cooling"

\* a table of exactly 30 rows with two different temperatures was rendered
C2_Witness ==
    /\ InsightsCalled
    /\ tab_content.children.has_trend
    /\ Len(tab_content.data.rows) = RecentWindow
    /\ \E i, j \in 1..RecentWindow :
          LET a == tab_content.data.rows[i].temperature
              b == tab_content.data.rows[j].temperature
          IN  ~a.nan /\ ~b.nan /\ a # b
    /\ tab_content.children.temp_trend = "cooling"

\* the extreme-day lookups made so far: the table and what came out
ExtremeCalls ==
    (IF tab_content # NoCall /\ tab_content.tab = "extremes"
     THEN {[df |-> tab_content.data, out |-> tab_content.children]} ELSE {})
    \cup
    (IF cli_out # NoCall /\ cli_out.method = "find_extreme_days"
     THEN {[df |-> cli_out.df, out |-> cli_out.printed]} ELSE {})

\* the card shows a row of the table whose cell is non-null and extreme in
\* its column, and no earlier row of the table holds the same value
CardIsFirstExtreme(df, card) ==
    LET col == Column(df, card.col)
        x   == card.row[card.col]
    IN  /\ ~x.nan
        /\ \A k \in 1..Len(col) :
              ~col[k].nan => IF card.role = "coldest" THEN BigLE(x.v, col[k].v)
                             ELSE BigLE(col[k].v, x.v)
        /\ \E i \in 1..Len(df.rows) :
              /\ df.rows[i] = card.row
              /\ \A j \in 1..(i - 1) : col[j].nan \/ col[j].v # x.v

\* the roles looked up in the columns a table has
RolesOf(df) ==
    (IF "temperature" \in df.cols THEN {"hottest", "coldest"} ELSE {})
    \cup (IF "precipitation" \in df.cols THEN {"wettest"} ELSE {})
    \cup (IF "wind_speed" \in df.cols THEN {"windiest"} ELSE {})

\* C3: an extreme-day lookup returns a full row of the table whose value in
\* the column is the maximum (minimum) of the column's non-null values, the
\* first such row in table order when several hold it; on a single-row
\* table it is that row.
C3_ExtremeIsFirstOccurrence ==
    \A c \in ExtremeCalls :
        c.out.kind = "extremes" =>
            /\ {c.out.cards[i].role : i \in 1..Len(c.out.cards)} = RolesOf(c.df)
            /\ \A i \in 1..Len(c.out.cards) : CardIsFirstExtreme(c.df, c.out.cards[i])
            /\ Len(c.df.rows) = 1 =>
                  \A i \in 1..Len(c.out.cards) : c.out.cards[i].row = c.df.rows[1]

\* a lookup on a table in which a later row repeats the hottest
\* temperature, and the hottest and the coldest day differ
C3_Witness ==
    \E c \in ExtremeCalls :
        /\ c.out.kind = "extremes"
        /\ \E h, l \in 1..Len(c.out.cards) :
              /\ c.out.cards[h].role = "hottest"
              /\ c.out.cards[l].role = "coldest"
              /\ c.out.cards[h].row # c.out.cards[l].row
              /\ \E i, j \in 1..Len(c.df.rows) :
                    /\ i < j
                    /\ c.df.rows[i] = c.out.cards[h].row
                    /\ c.df.rows[j].temperature = c.out.cards[h].row.temperature

\* | a - b |
BigDist(a, b) == IF BigLE(a, b) THEN BigSub(b, a) ELSE BigSub(a, b)

\* the greater of two
BigMax(a, b) == IF BigLE(a, b) THEN b ELSE a

\* d <= 1e-9 * max(1, mag) for d and mag in units of 2^-70: the relative
\* tolerance 1e-9, absolute for magnitudes below one
WithinTolerance(d, mag) ==
    BigLE(BigMulSmall(BigMulSmall(BigMulSmall(d, 1000), 1000), 1000),
          BigMax(ShiftLeft(<<1>>, 70), mag))

\* the mean m (units of 2^-70) is sum / n within the relative tolerance
\* 1e-9, sum being an exact sum in units of 2^-56
NearMean(m, sum, n) ==
    BigLE(BigMulSmall(BigMulSmall(BigMulSmall(
              BigDist(BigMulSmall(m, n), Fine(sum)), 1000), 1000), 1000),
          BigMax(BigMulSmall(ShiftLeft(<<1>>, 70), n), Fine(sum)))

\* the calendar month's season
SeasonByMonth ==
    <<"Winter", "Winter", "Spring", "Spring", "Spring", "Summer", "Summer", "Summer",
      "Fall", "Fall", "Fall", "Winter">>

\* the temperatures of the rows of a table whose month is in a set
TempsOfMonths(df, months) ==
    LET rs == SelectSeq(df.rows, LAMBDA r : r.date.month \in months)
    IN  [i \in 1..Len(rs) |-> rs[i].temperature]

\* C4: every row is assigned to one season by its calendar month (12, 1, 2
\* Winter; 3, 4, 5 Spring; 6, 7, 8 Summer; 9, 10, 11 Fall); the seasonal
\* averages have one entry for each season that received a row and none
\* for the others, and an entry is the mean temperature of its rows (as a
\* double: within the relative tolerance 1e-9 of the exact mean).
C4_SeasonalAverageBySeason ==
    (InsightsCalled /\ tab_content.children.has_seasonal) =>
        LET df   == tab_content.data
            divs == tab_content.children.season_divs
        IN  /\ {divs[i].season : i \in 1..Len(divs)}
                 = {SeasonByMonth[df.rows[i].date.month] : i \in 1..Len(df.rows)}
            /\ \A i, j \in 1..Len(divs) : divs[i].season = divs[j].season => i = j
            /\ \A i \in 1..Len(divs) :
                  LET temps == TempsOfMonths(df, {m \in 1..12 :
                                                    SeasonByMonth[m] = divs[i].season})
                  IN  IF NonNull(temps) = <<>> THEN divs[i].temp.nan
                      ELSE /\ ~divs[i].temp.nan
                           /\ NearMean(divs[i].temp.v, ExactSum(temps, 1, Len(temps)),
                                       Len(NonNull(temps)))

\* rows of December, April and October, one of each, were rendered as
\* exactly Winter, Spring and Fall, each with the temperature of its row,
\* and no Summer
C4_Witness ==
    /\ InsightsCalled
    /\ tab_content.children.has_seasonal
    /\ Len(tab_content.data.rows) = 3
    /\ {tab_content.data.rows[i].date.month : i \in 1..3} = {12, 4, 10}
    /\ \A i \in 1..3 : ~tab_content.data.rows[i].temperature.nan
    /\ tab_content.data.rows[1].temperature # tab_content.data.rows[2].temperature
    /\ {tab_content.children.season_divs[i].season :
            i \in 1..Len(tab_content.children.season_divs)} = {"Winter", "Spring", "Fall"}

\* the months of a season, ascending
MonthsOfSeason(season) ==
    SelectSeq([m \in 1..12 |-> m], LAMBDA m : SeasonByMonth[m] = season)

\* two years of rows, every calendar month present, and all rows of a
\* month with one non-null temperature
PerMonthConstant(df) ==
    /\ Cardinality({df.rows[i].date.year : i \in 1..Len(df.rows)}) = 2
    /\ \A m \in 1..12 :
          LET temps == TempsOfMonths(df, {m})
          IN  /\ temps # <<>>
              /\ \A i \in 1..Len(temps) : ~temps[i].nan /\ temps[i] = temps[1]

\* the sum of the constants of a season's three months, each taken w[j]
\* times
WeightedSum(df, season, w) ==
    LET ms == MonthsOfSeason(season)
        cs == [j \in 1..Len(ms) |->
                  F(BigMulSmall(TempsOfMonths(df, {ms[j]})[1].v, w[j]))]
    IN  ExactSum(cs, 1, Len(cs))

\* the number of rows each month of a season contributes
RowCounts(df, season) ==
    LET ms == MonthsOfSeason(season)
    IN  [j \in 1..Len(ms) |-> Len(TempsOfMonths(df, {ms[j]}))]

\* C5 as first stated: on two years of data covering every month, with one
\* constant temperature per month, each season mean is the arithmetic mean
\* of the three constants of its months, whatever the number of rows each
\* month contributes.
C5_SeasonMeanOfMonthConstants ==
    (InsightsCalled /\ tab_content.children.has_seasonal
        /\ PerMonthConstant(tab_content.data)) =>
        \A i \in 1..Len(tab_content.children.season_divs) :
            LET d == tab_content.children.season_divs[i]
            IN  /\ ~d.temp.nan
                /\ NearMean(d.temp.v,
                            WeightedSum(tab_content.data, d.season, <<1, 1, 1>>), 3)

\* C5: on two years of data covering every month, with one constant
\* temperature per month, each season mean is, within the relative
\* tolerance 1e-9, the mean of the three constants of its months weighted
\* by the number of rows each month contributes; it is their arithmetic
\* mean when the three months contribute equally many rows.
C5_SeasonMeanWeightedByRows ==
    (InsightsCalled /\ tab_content.children.has_seasonal
        /\ PerMonthConstant(tab_content.data)) =>
        /\ Len(tab_content.children.season_divs) = 4
        /\ \A i \in 1..Len(tab_content.children.season_divs) :
              LET d == tab_content.children.season_divs[i]
                  w == RowCounts(tab_content.data, d.season)
              IN  /\ ~d.temp.nan
                  /\ NearMean(d.temp.v, WeightedSum(tab_content.data, d.season, w),
                              w[1] + w[2] + w[3])
                  /\ (w[1] = w[2] /\ w[2] = w[3]) =>
                        NearMean(d.temp.v,
                                 WeightedSum(tab_content.data, d.season, <<1, 1, 1>>), 3)

\* such a table was rendered in which the months of one season contribute
\* different numbers of rows and the months of another the same number
C5_Witness ==
    /\ InsightsCalled
    /\ tab_content.children.has_seasonal
    /\ PerMonthConstant(tab_content.data)
    /\ Len(tab_content.children.season_divs) = 4
    /\ \E a, b \in 1..4 :
          LET wa == RowCounts(tab_content.data, tab_content.children.season_divs[a].season)
              wb == RowCounts(tab_content.data, tab_content.children.season_divs[b].season)
          IN  /\ wa[1] # wa[2]
              /\ wb[1] = wb[2] /\ wb[2] = wb[3]

\* the place of a season in the series the sort receives: the group-by
\* hands the seasons over in key order
InputPlace(season) == CHOOSE k \in 1..Len(SeasonKeys) : SeasonKeys[k] = season

\* C6: the seasonal averages are listed by descending mean temperature, and
\* seasons with equal means keep the order in which the sort received them.
C6_DescendingAndStable ==
    (InsightsCalled /\ tab_content.children.has_seasonal) =>
        LET divs == tab_content.children.season_divs
        IN  \A i, j \in 1..Len(divs) :
                (i < j /\ ~divs[i].temp.nan /\ ~divs[j].temp.nan) =>
                    /\ BigLE(divs[j].temp.v, divs[i].temp.v)
                    /\ divs[i].temp = divs[j].temp =>
                          InputPlace(divs[i].season) < InputPlace(divs[j].season)

\* the month numbers of a sequence of bars
BarMonths(bars) == [i \in 1..Len(bars) |-> bars[i].month]

\* the months that have a row, ascending
PresentMonths(df) ==
    SelectSeq([m \in 1..12 |-> m],
              LAMBDA m : \E i \in 1..Len(df.rows) : df.rows[i].date.month = m)

\* C7: the monthly average has one bucket for exactly the calendar months
\* that have a row, by ascending month whatever the row order, months
\* without rows being absent; and every consumer of the result works with
\* fewer than 12 buckets: the dashboard's chart and the analyzer's plot
\* both show one bar per bucket.
C7_OneBucketPerPresentMonth ==
    /\ (viz_content # NoCall /\ viz_content.viz_type = "monthly"
           /\ "temperature" \in viz_content.data.cols) =>
          /\ viz_content.children.kind = "monthly"
          /\ BarMonths(viz_content.children.bars) = PresentMonths(viz_content.data)
    /\ (cli_out # NoCall /\ cli_out.method = "plot_monthly_averages"
           /\ "temperature" \in cli_out.df.cols) =>
          /\ cli_out.printed.kind = "bars"
          /\ BarMonths(cli_out.printed.bars) = PresentMonths(cli_out.df)

\* the statistics calls made so far: the table and what came out
StatsCalls ==
    (IF tab_content # NoCall /\ tab_content.tab = "statistics"
     THEN {[df |-> tab_content.data, out |-> tab_content.children]} ELSE {})
    \cup
    (IF cli_out # NoCall /\ cli_out.method = "summary_statistics"
     THEN {[df |-> cli_out.df, out |-> cli_out.printed]} ELSE {})

\* x <= y on statistics (units of 2^-70): false when either is NaN
StatLE(x, y) == ~x.nan /\ ~y.nan /\ BigLE(x.v, y.v)

\* x <= y within the relative tolerance 1e-9: x is at most y, or above it
\* by no more than 1e-9 * max(1, y)
StatLETol(x, y) ==
    ~x.nan /\ ~y.nan /\ (BigLE(x.v, y.v) \/ WithinTolerance(BigSub(x.v, y.v), y.v))

\* C8 as first stated: for every non-empty table the statistics of every
\* numeric column, nulls or not, satisfy min <= mean <= max and
\* min <= median <= max.
C8_MeanAndMedianWithinRange ==
    \A c \in StatsCalls :
        (c.out.kind = "statistics" /\ Len(c.df.rows) >= 1) =>
            \A i \in 1..Len(c.out.stats) :
                LET st == c.out.stats[i]
                IN  /\ StatLE(st.min, st.mean) /\ StatLE(st.mean, st.max)
                    /\ StatLE(st.min, st.median) /\ StatLE(st.median, st.max)

\* C8: for every non-empty table and every numeric column with at least
\* one non-null value, min and max are the least and the greatest non-null
\* value, min <= median <= max, and min <= mean <= max within the
\* relative tolerance 1e-9 (the mean is at most 1e-9 * max(1, max) above
\* max and as little below min); for a column with no non-null value
\* mean, median, min and max are all not-a-number.
C8_WithinRangeUpToRounding ==
    \A c \in StatsCalls :
        (c.out.kind = "statistics" /\ Len(c.df.rows) >= 1) =>
            /\ {c.out.stats[i].col : i \in 1..Len(c.out.stats)} = c.df.cols \ {"date"}
            /\ \A i \in 1..Len(c.out.stats) :
                  LET st   == c.out.stats[i]
                      vals == NonNull(Column(c.df, st.col))
                  IN  IF vals = <<>>
                      THEN st.mean.nan /\ st.median.nan /\ st.min.nan /\ st.max.nan
                      ELSE /\ \E k \in 1..Len(vals) : st.min = F(Fine(vals[k].v))
                           /\ \E k \in 1..Len(vals) : st.max = F(Fine(vals[k].v))
                           /\ \A k \in 1..Len(vals) :
                                 /\ StatLE(st.min, F(Fine(vals[k].v)))
                                 /\ StatLE(F(Fine(vals[k].v)), st.max)
                           /\ StatLE(st.min, st.median) /\ StatLE(st.median, st.max)
                           /\ StatLETol(st.min, st.mean) /\ StatLETol(st.mean, st.max)

\* statistics were computed of a temperature column with a null and two
\* different values, the mean strictly between them
C8_Witness ==
    \E c \in StatsCalls :
        /\ c.out.kind = "statistics"
        /\ "temperature" \in c.df.cols
        /\ \E k \in 1..Len(c.df.rows) : c.df.rows[k].temperature.nan
        /\ \E i \in 1..Len(c.out.stats) :
              LET st == c.out.stats[i]
              IN  /\ st.col = "temperature"
                  /\ StatLE(st.min, st.mean) /\ st.min # st.mean
                  /\ StatLE(st.mean, st.max) /\ st.mean # st.max

\* C9: a statistics call on a loaded table with zero rows fails with
\* EmptyTableError and never yields a degenerate result.
C9_EmptyTableFails ==
    \A c \in StatsCalls :
        (c.df.loaded /\ Len(c.df.rows) = 0) => c.out = Raised("EmptyTableError")

\* the insights tab was rendered from a table without a temperature column
InsightsWithoutTemperature ==
    /\ tab_content # NoCall
    /\ tab_content.tab = "insights"
    /\ tab_content.data.loaded
    /\ "temperature" \notin tab_content.data.cols

\* C10: the trend and the seasonal averages of a table without a
\* temperature column fail with ColumnNotFoundError; the computation is
\* not silently skipped.  The guards of app.py 515 and 527 skip both
\* computations and the tab shows its heading alone.
C10_MissingColumnFails ==
    InsightsWithoutTemperature =>
        tab_content.children = Raised("ColumnNotFoundError")

\* the looked-up columns of a table that hold no non-null cell
AllNullColumns(df) ==
    {c \in {"temperature", "precipitation", "wind_speed"} \cap df.cols :
        NonNull(Column(df, c)) = <<>>}

\* the exception of df[col] on a column the table lacks
ColumnNotFound == "KeyError"

\* C11: an extreme-day lookup on a table in which a looked-up column is
\* present but holds only nulls fails, whatever the number of rows, and
\* the failure is of a kind of its own, never the one a missing column
\* gives.
C11_AllNullColumnFailsTyped ==
    \A c \in ExtremeCalls :
        (c.df.loaded /\ Len(c.df.rows) >= 1 /\ AllNullColumns(c.df) # {}) =>
            /\ c.out.kind = "raised"
            /\ c.out.exc # ColumnNotFound

\* C12: every aggregation leaves its table as it was: after a tab
\* renderer, a chart or an analyzer method has run, the table it was given
\* has the same rows in the same order and the same columns, with no
\* month or season column added.
C12_AggregationsLeaveTableUnchanged ==
    /\ tab_content # NoCall => tab_content.frame = tab_content.data
    /\ viz_content # NoCall => viz_content.frame = viz_content.data
    /\ cli_out # NoCall => analyzer_df = cli_out.df

\* the seasonal insights, the monthly chart and the monthly plot have all
\* run on a table with dates and temperatures, each on its own copy
C12_Witness ==
    /\ tab_content # NoCall /\ viz_content # NoCall /\ cli_out # NoCall
    /\ tab_content.tab = "insights"
    /\ tab_content.children.kind = "insights"
    /\ tab_content.children.has_seasonal
    /\ viz_content.viz_type = "monthly"
    /\ viz_content.children.kind = "monthly"
    /\ cli_out.method = "plot_monthly_averages"
    /\ Len(cli_out.df.rows) >= 2
    /\ {"date", "temperature"} \subseteq cli_out.df.cols

\* the table as it was loaded: without a load in between, the store still
\* holds the table the dashboard and the analyzer started from
TableAsLoaded == stored

\* the result of an analyzer report on a table
ReportOutcomes(method, df) ==
    IF method = "summary_statistics" THEN summary_statistics(df)
    ELSE IF method = "find_extreme_days" THEN find_extreme_days(df)
    ELSE {plot_monthly_averages(df)}

\* C13: whatever tabs, charts and reports have run before, in whatever
\* order, a tab, a chart or a report gives the one result it gives on the
\* table as loaded (for a report, as read_csv read the same table): the
\* result depends on the table alone, and running the same aggregation
\* again gives the identical result.
C13_ResultDependsOnTableOnly ==
    /\ tab_content # NoCall =>
          OfBuild(build, TabOutcomes(tab_content.tab, TableAsLoaded))
              = {tab_content.children}
    /\ viz_content # NoCall =>
          viz_content.children =
              IF ~TableAsLoaded.loaded THEN [kind |-> "empty"]
              ELSE update_visualization(viz_content.viz_type, TableAsLoaded)
    /\ cli_out # NoCall =>
          OfBuild(build, ReportOutcomes(cli_out.method, read_csv(TableAsLoaded)))
              = {cli_out.printed}

\* the seasonal insights, the monthly chart and the statistics report have
\* all run on a table of two rows whose two seasons have the same mean,
\* under a build whose sort reverses equal values
C13_Witness ==
    /\ tab_content # NoCall /\ viz_content # NoCall /\ cli_out # NoCall
    /\ build.ties = "reversed"
    /\ tab_content.tab = "insights"
    /\ tab_content.children.kind = "insights"
    /\ tab_content.children.has_seasonal
    /\ Len(tab_content.children.season_divs) = 2
    /\ viz_content.viz_type = "monthly"
    /\ cli_out.method = "summary_statistics"
    /\ cli_out.printed.kind = "statistics"
    /\ Len(cli_out.df.rows) = 2

\* the temperatures of a table rise from every row to the next
StrictlyIncreasing(df) ==
    LET t == Column(df, "temperature")
    IN  /\ \A i \in 1..Len(t) : ~t[i].nan
        /\ \A i \in 1..(Len(t) - 1) : BigLT(t[i].v, t[i + 1].v)

\* C14: a table of 31 rows or more whose temperatures are strictly
\* increasing in table order is labelled warming.  Temperatures near
\* 2^51, which the store keeps exactly, are one unit in the last place
\* apart: the two means round to the same double, or to a smaller recent
\* mean, and the label is cooling.
C14_IncreasingIsWarming ==
    (InsightsCalled /\ Len(tab_content.data.rows) >= RecentWindow + 1
        /\ StrictlyIncreasing(tab_content.data)) =>
        tab_content.children.temp_trend = "warming"

\* a date as a number of days that grows with the date
DateKey(d) == (d.year * 12 + d.month) * 31 + d.day

\* the records of a table in chronological order, for tables in which no
\* two rows have the same date
Chronological(df) ==
    LET n == Len(df.rows)
        rank(i) == Cardinality({j \in 1..n :
                        DateKey(df.rows[j].date) <= DateKey(df.rows[i].date)})
    IN  Table(df.cols,
              [k \in 1..n |-> df.rows[CHOOSE i \in 1..n : rank(i) = k]])

\* C15: the trend compares the mean of the 30 records with the latest
\* dates against the mean of the whole table, so the label of a table is
\* the label of the same records in chronological order, whatever the
\* order of its rows.
C15_TrendOfLatestDates ==
    (InsightsCalled /\ tab_content.children.has_trend) =>
        tab_content.children.temp_trend = TempTrend(Chronological(tab_content.data))

\* C16: the statistics of a table with a numeric column of fewer than two
\* non-null values are computed without an exception: the standard
\* deviation of that column is NaN, its mean, median, minimum and maximum
\* are its one value (NaN when it has none), and every other numeric
\* column has its statistics, with a standard deviation where it has two
\* values or more.
C16_SparseColumnStdIsNaN ==
    \A c \in StatsCalls :
        c.df.loaded =>
            /\ c.out.kind = "statistics"
            /\ Len(c.out.stats) = Len(NumericCols(c.df))
            /\ \A i \in 1..Len(c.out.stats) :
                  LET st    == c.out.stats[i]
                      cells == NonNull(Column(c.df, NumericCols(c.df)[i]))
                  IN  /\ st.col = NumericCols(c.df)[i]
                      /\ st.std.nan <=> Len(cells) < 2
                      /\ Len(cells) = 0 =>
                            /\ st.mean.nan /\ st.median.nan
                            /\ st.min.nan /\ st.max.nan
                      /\ Len(cells) = 1 =>
                            /\ st.mean = F(Fine(cells[1].v))
                            /\ st.median = st.mean
                            /\ st.min = st.mean
                            /\ st.max = st.mean
                      /\ Len(cells) >= 2 =>
                            /\ ~st.mean.nan /\ ~st.median.nan
                            /\ ~st.min.nan /\ ~st.max.nan

\* statistics of a table in which the precipitation has two values or
\* more, the wind speed one and the temperature none
C16_Witness ==
    \E c \in StatsCalls :
        /\ c.out.kind = "statistics"
        /\ c.df.cols = AllCols
        /\ Len(NonNull(Column(c.df, "precipitation"))) >= 2
        /\ Len(NonNull(Column(c.df, "wind_speed"))) = 1
        /\ Len(NonNull(Column(c.df, "temperature"))) = 0
        /\ \E i \in 1..Len(c.out.stats) :
              /\ c.out.stats[i].col = "wind_speed"
              /\ c.out.stats[i].std.nan
              /\ c.out.stats[i].mean = F(Fine(One.v))

\* C17: of two 'Get Data' requests for different cities or days handled
\* at the same time, each one that succeeds answers with the table fetched
\* for its own city and days, never with the table the other request wrote
\* to analyzer.df.
C17_EachRequestStoresItsOwnTable ==
    \A r \in DOMAIN req :
        (/\ req[r].pc = "done"
         /\ req[r].response.message.kind = "fetched"
         /\ \A o \in DOMAIN req \ {r} :
               req[o].pc # "idle" =>
                   <<req[o].city, req[o].days>> # <<req[r].city, req[r].days>>) =>
            req[r].response.data = Stored(req[r].df)

\* the table an upload or a click loads, from what the event carried: the
\* CSV of an upload that has a date column, the days the provider answered
\* for a city it knows; no table for anything else
EventTable(event) ==
    IF event.trigger_id = "upload-data"
    THEN IF event.contents.kind = "csv" /\ "date" \in event.contents.table.cols
         THEN event.contents.table ELSE NoData
    ELSE IF /\ event.n_clicks > 0
            /\ event.city \in city_coords
            /\ event.answer # "down"
         THEN DropNa(ProviderTable(event.city, event.days, event.answer))
         ELSE NoData

\* the event raised inside the callback: an upload that cannot be read or
\* lacks the date column, a city that is not supported, a provider failure
EventRaised(event) ==
    IF event.trigger_id = "upload-data"
    THEN \/ event.contents.kind = "malformed"
         \/ event.contents.kind = "csv" /\ "date" \notin event.contents.table.cols
    ELSE event.n_clicks > 0 /\ (event.city \notin city_coords \/ event.answer = "down")

\* the tables a click can fetch, as the store gives them back
FetchableTables ==
    {Stored(DropNa(ProviderTable(city, days, answer))) :
        city \in FetchCities \cap city_coords, days \in FetchDays,
        answer \in ProviderAnswers \ {"down"}}

\* C18: load_data never lets an exception out.  After any sequence of
\* uploads and clicks, the requests of the clicks running side by side,
\* the stored data is a table if the most recent event (the one whose
\* return reached the store last) loaded successfully, and None
\* otherwise: the table of the upload, or a table a click fetched.  Where
\* the most recent event raised, the callback returned None with an error
\* message, whatever table was stored before, and a tab rendered from
\* stored data None is the placeholder.
C18_FailedLoadClearsStore ==
    /\ status # NoCall =>
          /\ status.message.kind # "raised"
          /\ stored.loaded <=> EventTable(status.event).loaded
          /\ stored.loaded =>
                IF status.event.trigger_id = "upload-data"
                THEN /\ status.message.kind = "loaded"
                     /\ stored = Stored(EventTable(status.event))
                ELSE /\ status.message.kind = "fetched"
                     /\ stored \in FetchableTables
          /\ EventRaised(status.event) =>
                ~stored.loaded /\ status.message.kind = "error"
    /\ (tab_content # NoCall /\ ~tab_content.data.loaded) =>
          tab_content.children.kind = "placeholder"

\* an upload without a date column has raised while the request of a
\* click was between its write and its read of analyzer.df, after a fetch
\* had loaded a table: the store is None again and the insights tab shows
\* the placeholder
C18_Witness ==
    /\ status # NoCall
    /\ status.event.trigger_id = "upload-data"
    /\ status.event.contents.kind = "csv"
    /\ "date" \notin status.event.contents.table.cols
    /\ status.message.kind = "error"
    /\ analyzer_df.loaded
    /\ \E r \in Requests : req[r].pc = "assigned"
    /\ ~stored.loaded
    /\ tab_content # NoCall
    /\ tab_content.tab = "insights"
    /\ tab_content.data = stored
    /\ tab_content.children.kind = "placeholder"

\* the last analyzer call was a load, and the table it loaded if it
\* succeeded
LoadMethods == {"load_data", "create_sample_data", "fetch_real_data"}

LoadSucceeded(call) ==
    IF call.method = "load_data" THEN call.args[1].kind = "csv"
    ELSE IF call.method = "create_sample_data" THEN call.args[1] >= 0
    ELSE call.args[1] \in city_coords /\ call.args[3] # "down"

\* C19: a load that succeeds leaves its table in self.df, and a load that
\* fails leaves self.df as it was: a failing load_data returns False, and
\* fetch_real_data for a city that is not supported raises ValueError.  So
\* after any sequence of loads self.df is the table of the most recent
\* successful one, and None when there was none; and while self.df is None
\* summary_statistics and find_extreme_days report 'No data loaded!' and
\* return without raising.
C19_DfIsLastSuccessfulLoad ==
    /\ (cli_out # NoCall /\ cli_out.method \in LoadMethods) =>
          /\ LoadSucceeded(cli_out) =>
                /\ cli_out.printed.kind = "returned"
                /\ analyzer_df.loaded
                /\ cli_out.method = "load_data" =>
                      /\ cli_out.printed.value = TRUE
                      /\ analyzer_df = read_csv(cli_out.args[1].table)
                /\ cli_out.method = "create_sample_data" =>
                      /\ analyzer_df = cli_out.printed.value
                      /\ Len(analyzer_df.rows) = cli_out.args[1]
                /\ cli_out.method = "fetch_real_data" =>
                      analyzer_df = DropNa(ProviderTable(cli_out.args[1], cli_out.args[2],
                                                         cli_out.args[3]))
          /\ ~LoadSucceeded(cli_out) =>
                /\ analyzer_df = cli_out.df
                /\ cli_out.method = "load_data" =>
                      cli_out.printed = [kind |-> "returned", value |-> FALSE]
                /\ (cli_out.method = "fetch_real_data"
                        /\ cli_out.args[1] \notin city_coords) =>
                      cli_out.printed = Raised("ValueError")
    /\ (cli_out # NoCall /\ cli_out.method \notin LoadMethods) =>
          /\ analyzer_df = cli_out.df
          /\ ~cli_out.df.loaded => cli_out.printed = NoDataLoaded
    /\ cli_out = NoCall => ~analyzer_df.loaded

\* a load_data that failed on an analyzer holding a fetched table: it
\* returned False and the table is still there
C19_Witness ==
    /\ cli_out # NoCall
    /\ cli_out.method = "load_data"
    /\ cli_out.args[1].kind = "malformed"
    /\ cli_out.printed = [kind |-> "returned", value |-> FALSE]
    /\ cli_out.df.loaded
    /\ Len(cli_out.df.rows) = 2
    /\ cli_out.df.rows[1].temperature = Warm
    /\ analyzer_df = cli_out.df

=============================================================================
